---------------------------- MODULE Spec2Model ----------------------------
(***************************************************************************)
(* Model of src/app.py: the submission cycle of the LeetCode problem       *)
(* tracker (history append, 7-day revision check, oracle call, response    *)
(* parsing and the single-slot selection store).                           *)
(*                                                                         *)
(* Representation                                                          *)
(*   - A calendar date is a day number.  A date string is a record         *)
(*     [valid, day]: strftime builds a valid one, strptime raises          *)
(*     ValueError on one that is not valid.                                *)
(*   - A JSON file is [kind, data]: kind is "absent" (no file), "corrupt"  *)
(*     (json.load raises JSONDecodeError) or "json" (data is the value).   *)
(*   - A piece of text handed to the regular expression and to json.loads  *)
(*     is a sequence of tokens: <<"{">>, <<"}">>, <<"kv", key, value>>     *)
(*     (one "key": "value" member) and <<"txt", s>> (any other text).      *)
(*   - A python dict is a function from its keys (strings) to its values.  *)
(***************************************************************************)
EXTENDS Integers, Sequences, FiniteSets, TLC

VARIABLES
    today,          \* datetime.now().date(), as a day number
    df,             \* the catalog loaded by load_problems (sequence of rows)
    histFile,       \* all_attempts.json
    selFile,        \* selected_problem.json
    active,         \* the sessions (script runs) that exist
    forms,          \* per session: the titles and days its learner chooses from
    pc,             \* per session: position in main's submit branch
    previous_attempt, \* per session: local of main
    data,           \* per session: local of append_to_history
    all_attempts,   \* per session: local of main, patched in place by the check
    revision_problem, \* per session: result of check_revision_needed
    prompt,         \* per session: the request built for the oracle
    ai_response,    \* per session: first component returned by pick_problem_with_ai
    is_revision,    \* per session: second component
    oracle_calls,   \* per session: calls of model.generate_content in this cycle
    steps,          \* per session: the steps this cycle has taken, in order
    ui,             \* per session: what the cycle reported to the user
    overwritten,    \* selected_problem.json as it was before the latest save
    cycles          \* submission cycles started so far (all sessions)

vars == <<today, df, histFile, selFile, active, forms, pc, previous_attempt, data,
          all_attempts, revision_problem, prompt, ai_response, is_revision,
          oracle_calls, steps, ui, overwritten, cycles>>

-----------------------------------------------------------------------------
(* Bounds of the model *)

\* submission cycles explored per behaviour
MaxCycles == 2
\* longest stored history the revision check is applied to in SpecCheck
MaxHist == 2
\* stored dates range over the days 0 .. DateSpan
DateSpan == 2

(* Program constants *)

\* (today - date_solved).days == 7
RevisionGap == 7
\* get_close_matches(..., cutoff=0.6), in percent
Cutoff == 60
\* all_attempts[-5:]
HistoryTail == 5

-----------------------------------------------------------------------------
(* Generic helpers *)

None == [kind |-> "None"]

Range(s) == {s[i] : i \in 1..Len(s)}

Min(a, b) == IF a <= b THEN a ELSE b

\* python's s[-n:]
LastN(s, n) == SubSeq(s, Len(s) - Min(n, Len(s)) + 1, Len(s))

\* d with d[k] = v (python: d[k] = v)
SetKey(d, k, v) == [x \in DOMAIN d \cup {k} |-> IF x = k THEN v ELSE d[x]]

\* python: d.get(k, default)
Get(d, k, default) == IF k \in DOMAIN d THEN d[k] ELSE default

-----------------------------------------------------------------------------
(* Dates *)

\* date.strftime("%Y-%m-%d")
strftime(day) == [valid |-> TRUE, day |-> day]

\* A string that is no date
BadDate == [valid |-> FALSE, day |-> 0]

\* datetime.strptime(s, "%Y-%m-%d").date(): [ok, day]; ok = FALSE is ValueError
strptime(s) == IF s.valid THEN [ok |-> TRUE, day |-> s.day]
               ELSE [ok |-> FALSE, day |-> 0]

-----------------------------------------------------------------------------
(* Title Matcher: get_problem_link_by_title *)

DefaultLink == "https://leetcode.com"

TwoSumLink == "https://leetcode.com/problems/two-sum"
LfuLink == "https://leetcode.com/problems/lfu-cache"

\* The catalog of the model: rows of leetcode_question.csv
Catalog ==
    << [Title |-> "Two Sum", Difficulty |-> "Easy",
        Link |-> TwoSumLink],
       [Title |-> "LFU Cache", Difficulty |-> "Hard",
        Link |-> LfuLink] >>

\* pd.DataFrame() returned when the csv is missing
EmptyCatalog == << >>

\* str.lower().strip() on the titles of the model
Normalize(t) ==
    CASE t = "Two Sum"    -> "two sum"
      [] t = "LFU Cache"  -> "lfu cache"
      [] t = "lru cache " -> "lru cache"
      [] t = "ZZZ "       -> "zzz"
      [] OTHER            -> t

\* str.strip() on the links of the model
Strip(s) == IF s = " " THEN "" ELSE s

\* len(s) of a normalized title
StrLen(t) ==
    CASE t = "two sum"   -> 7
      [] t = "lfu cache" -> 9
      [] t = "lru cache" -> 9
      [] t = "zzz"       -> 3
      [] OTHER           -> 0

\* SequenceMatcher(None, b, a): total size of get_matching_blocks()
MatchingSize(a, b) ==
    CASE a = b -> StrLen(a)
      [] {a, b} = {"lru cache", "lfu cache"} -> 8
      [] {a, b} = {"two sum", "lru cache"}   -> 1
      [] {a, b} = {"two sum", "lfu cache"}   -> 1
      [] OTHER -> 0

\* SequenceMatcher.ratio() >= cutoff, i.e. 2*M/T >= Cutoff/100
Accepted(a, b) ==
    200 * MatchingSize(a, b) >= Cutoff * (StrLen(a) + StrLen(b))

\* ratio(a, b1) >= ratio(a, b2)
RatioGeq(a, b1, b2) ==
    MatchingSize(a, b1) * (StrLen(a) + StrLen(b2))
        >= MatchingSize(a, b2) * (StrLen(a) + StrLen(b1))

\* difflib.get_close_matches(word, titles, n=1, cutoff=0.6): a sequence of
\* at most one title, the accepted one of highest ratio
get_close_matches(word, titles) ==
    LET ok == {b \in Range(titles) : Accepted(word, b)}
    IN  IF ok = {} THEN << >>
        ELSE << CHOOSE b \in ok : \A c \in ok : RatioGeq(word, b, c) >>

\* df[df["normalized_title"] == t].iloc[0]
FirstRow(cat, t) ==
    cat[CHOOSE i \in 1..Len(cat) :
            /\ Normalize(cat[i].Title) = t
            /\ \A j \in 1..(i - 1) : Normalize(cat[j].Title) # t]

\* get_problem_link_by_title(title, df): <<link, title, found>>
get_problem_link_by_title(title, cat) ==
    IF cat = EmptyCatalog THEN <<DefaultLink, title, FALSE>>
    ELSE LET t      == Normalize(title)
             titles == [i \in 1..Len(cat) |-> Normalize(cat[i].Title)]
             close  == get_close_matches(t, titles)
         IN  IF close # << >>
             THEN LET match_row == FirstRow(cat, close[1])
                  IN  <<match_row.Link, match_row.Title, TRUE>>
             ELSE <<DefaultLink, t, FALSE>>

-----------------------------------------------------------------------------
(* Revision Scheduler: check_revision_needed *)

LinkKey == "Leetcode Question Link"

\* The record returned at line 118: the attempt, patched with the matcher's
\* title and link when it carries no link of its own
Patched(attempt, cat) ==
    LET link == Strip(Get(attempt, LinkKey, ""))
    IN  IF link = ""
        THEN LET m == get_problem_link_by_title(attempt["Title"], cat)
             IN  SetKey(SetKey(attempt, "Title", m[2]), LinkKey, m[1])
        ELSE attempt

\* A gap of at least RevisionGap days
GapAtLeast(now, day) == now - day >= RevisionGap

\* Line 112: (today - date_solved).days == 7
GapMatches(now, day) == now - day = RevisionGap

\* The result of a scan that found nothing: return None
NotFound(attempts) ==
    [found |-> FALSE, index |-> 0, attempt |-> None, attempts |-> attempts]

RECURSIVE ScanFrom(_, _, _, _)

\* A scan that gives up at a date it cannot parse
AbortScan(attempts, cat, now, i) == NotFound(attempts)

\* Lines 119-120: except ValueError: continue
OnValueError(attempts, cat, now, i) == ScanFrom(attempts, cat, now, i + 1)

\* The for loop of check_revision_needed from index i on.  The result is
\* [found, index, attempt, attempts]: attempts is the list after the in-place
\* patch; found = FALSE is the return of None.
ScanFrom(attempts, cat, now, i) ==
    IF i > Len(attempts)
    THEN NotFound(attempts)
    ELSE LET attempt == attempts[i]
         IN  IF attempt["Completed"] = "yes"
             THEN LET date_solved == strptime(attempt["date_attempted"])
                  IN  IF ~date_solved.ok
                      THEN OnValueError(attempts, cat, now, i)
                      ELSE IF GapMatches(now, date_solved.day)
                           THEN LET p == Patched(attempt, cat)
                                IN  [found |-> TRUE, index |-> i, attempt |-> p,
                                     attempts |-> [attempts EXCEPT ![i] = p]]
                           ELSE ScanFrom(attempts, cat, now, i + 1)
             ELSE ScanFrom(attempts, cat, now, i + 1)

check_revision_needed(attempts, cat, now) == ScanFrom(attempts, cat, now, 1)

-----------------------------------------------------------------------------
(* Files *)

Absent == [kind |-> "absent", data |-> << >>]
Corrupt == [kind |-> "corrupt", data |-> << >>]
JsonFile(d) == [kind |-> "json", data |-> d]

\* selected_problem.json before the first save
NoSelection == [kind |-> "absent", data |-> None]

\* load_attempts_history, and the read at the head of append_to_history:
\* a missing or corrupt file reads as the empty list
load_attempts_history(file) == IF file.kind = "json" THEN file.data ELSE << >>

-----------------------------------------------------------------------------
(* Text: json.dumps, re.search(r'\{.*\}', text, re.DOTALL), json.loads *)

LBrace == <<"{">>
RBrace == <<"}">>
KV(k, v) == <<"kv", k, v>>
Txt(t) == <<"txt", t>>

Text(toks) == [kind |-> "text", text |-> toks]

\* json.dumps({"Title": .., "Difficulty": .., "Link": .., "Reason": ..})
Dumps(title, difficulty, link, reason) ==
    << LBrace, KV("Title", title), KV("Difficulty", difficulty),
       KV("Link", link), KV("Reason", reason), RBrace >>

\* re.search(r'\{.*\}', text, re.DOTALL): greedy, from the first "{" to the
\* last "}" after it; [found, group]
Search(toks) ==
    LET opens  == {i \in 1..Len(toks) : toks[i] = LBrace}
        closes == {i \in 1..Len(toks) : toks[i] = RBrace}
    IN  IF opens = {} \/ closes = {}
        THEN [found |-> FALSE, group |-> << >>]
        ELSE LET first == CHOOSE i \in opens : \A j \in opens : i <= j
                 last  == CHOOSE i \in closes : \A j \in closes : j <= i
             IN  IF first < last
                 THEN [found |-> TRUE, group |-> SubSeq(toks, first, last)]
                 ELSE [found |-> FALSE, group |-> << >>]

\* json.loads of a span "{ ... }": [ok, value]; ok = FALSE is JSONDecodeError.
\* The span is an object iff everything between its braces is a member; a
\* repeated key keeps its last value.
Loads(span) ==
    LET inner == SubSeq(span, 2, Len(span) - 1)
        isObj == \A i \in 1..Len(inner) : inner[i][1] = "kv"
        keys  == {inner[i][2] : i \in 1..Len(inner)}
        lastOf(k) == CHOOSE i \in 1..Len(inner) :
                        /\ inner[i][2] = k
                        /\ \A j \in (i + 1)..Len(inner) : inner[j][2] # k
    IN  IF isObj
        THEN [ok |-> TRUE, value |-> [k \in keys |-> inner[lastOf(k)][3]]]
        ELSE [ok |-> FALSE, value |-> << >>]

-----------------------------------------------------------------------------
(* Recommendation request: the prompt of pick_problem_with_ai *)

\* The guideline of lines 146-149 that applies to the triggering attempt
Guidance(prev_difficulty, completed) ==
    IF completed = "yes" THEN "increase or maintain"
    ELSE CASE prev_difficulty = "Easy"   -> "same or easier"
           [] prev_difficulty = "Medium" -> "Easy or Medium"
           [] prev_difficulty = "Hard"   -> "Medium"
           [] OTHER                      -> "none"

\* One line of the summary of recent attempts (line 154)
SummaryLine(a) ==
    [Title |-> a["Title"], Difficulty |-> a["Difficulty"],
     Outcome |-> IF a["Completed"] = "yes" THEN "Completed" ELSE "Skipped",
     Date |-> a["date_attempted"]]

\* A prompt whose summary leaves the triggering attempt out
BuildPromptPreceding(prev_title, prev_difficulty, recent_tags, completed, date_attempted, attempts) ==
    LET before == SubSeq(attempts, 1, Len(attempts) - 1)
        tail   == LastN(before, HistoryTail)
    IN  [prev_title |-> prev_title, prev_difficulty |-> prev_difficulty,
         completed |-> completed, date |-> date_attempted,
         guidance |-> Guidance(prev_difficulty, completed),
         avoid_tags |-> recent_tags,
         summary |-> [i \in 1..Len(tail) |-> SummaryLine(tail[i])]]

\* The prompt of lines 138-166
BuildPrompt(prev_title, prev_difficulty, recent_tags, completed, date_attempted, attempts) ==
    LET tail == LastN(attempts, HistoryTail)
    IN  [prev_title |-> prev_title, prev_difficulty |-> prev_difficulty,
         completed |-> completed, date |-> date_attempted,
         guidance |-> Guidance(prev_difficulty, completed),
         avoid_tags |-> recent_tags,
         summary |-> [i \in 1..Len(tail) |-> SummaryLine(tail[i])]]

-----------------------------------------------------------------------------
(* Selection Result Store: save_selected_problem *)

\* The Tag of lines 185-188: [set, value]
TagOf(isRev, completed) ==
    LET t1 == IF isRev THEN [set |-> TRUE, value |-> "revision"]
              ELSE [set |-> FALSE, value |-> ""]
    IN  IF completed = "no"
        THEN [set |-> TRUE, value |-> t1.value \o " not Complete"]
        ELSE t1

\* The dict written to selected_problem.json (lines 177-188)
SelectionData(problem_title, problem_link, prev_difficulty, recent_tags, user_behavior, reason, isRev, completed) ==
    LET base == [k \in {"Title", LinkKey, "Previous Difficulty",
                        "Recent Tags", "User Behavior", "Reason"} |->
                    CASE k = "Title" -> problem_title
                      [] k = LinkKey -> problem_link
                      [] k = "Previous Difficulty" -> prev_difficulty
                      [] k = "Recent Tags" -> recent_tags
                      [] k = "User Behavior" -> user_behavior
                      [] OTHER -> reason]
        tag  == TagOf(isRev, completed)
    IN  IF tag.set THEN SetKey(base, "Tag", tag.value) ELSE base

\* A save that updates the stored record key by key
SaveMerging(old, d) ==
    IF old.kind = "json"
    THEN JsonFile([k \in DOMAIN d \cup DOMAIN old.data |->
                      IF k \in DOMAIN d THEN d[k] ELSE old.data[k]])
    ELSE JsonFile(d)

\* open("selected_problem.json", "w"); json.dump(data, f): the file after
\* the write, given the file before it
save_selected_problem(old, d) == JsonFile(d)

-----------------------------------------------------------------------------
(* What the user sees: st.error / st.markdown calls of main *)

ErrRequired == <<"error", "Please fill in all required fields", "">>
ErrApi == <<"error", "AI API Error", "">>
ErrNoRecommendation == <<"error", "Failed to get AI recommendation", "">>
ErrParse(detail) == <<"error", "Failed to parse AI response", detail>>
Success == <<"success", "Attempt saved successfully!", "">>

RequiredKeys == {"Title", "Difficulty", "Link", "Reason"}

-----------------------------------------------------------------------------
(* Inputs *)

Sessions == {1, 2}

\* Titles typed into the form: a canonical one, one that needs normalizing
\* (and matches "LFU Cache" at ratio 16/18), and none
FormTitles == {"Two Sum", "lru cache ", ""}

\* The difficulty and the tags text the learner enters with each title
FormDifficulty(title) == IF title = "Two Sum" THEN "Easy" ELSE "Medium"
FormTagsText(title) == IF title = "Two Sum" THEN "array, hash-table" ELSE ""

\* [tag.strip() for tag in tags.split(",")] if tags else []
SplitTags(text) ==
    IF text = "" THEN << >>
    ELSE IF text = "array, hash-table" THEN <<"array", "hash-table">>
    ELSE <<text>>

\* Days the date picker is set to on day `now`: today, or RevisionGap days ago
FormDays(now) == {now - RevisionGap, now}

\* The forms a learner submits, given the titles and days to choose from
Forms(menu) ==
    {[title |-> t, difficulty |-> FormDifficulty(t), time_taken |-> "30 mins",
      completed |-> c, tags |-> FormTagsText(t), date_attempted |-> d] :
        t \in menu.titles, c \in {"yes", "no"}, d \in menu.days}

\* previous_attempt of lines 253-260
AttemptOf(form) ==
    [k \in {"Title", "Difficulty", "Time Taken", "Completed", "Tags",
            "date_attempted"} |->
        CASE k = "Title" -> form.title
          [] k = "Difficulty" -> form.difficulty
          [] k = "Time Taken" -> form.time_taken
          [] k = "Completed" -> form.completed
          [] k = "Tags" -> SplitTags(form.tags)
          [] OTHER -> strftime(form.date_attempted)]

\* Members of the object a well-behaved oracle returns
GoodMember(k) ==
    CASE k = "Title" -> KV("Title", "3Sum")
      [] k = "Difficulty" -> KV("Difficulty", "Medium")
      [] k = "Link" -> KV("Link", "https://leetcode.com/problems/3sum")
      [] OTHER -> KV("Reason", "warmup")

KeyOrder == <<"Title", "Difficulty", "Link", "Reason">>

\* The object with the members of KeyOrder, except the key `skip`
ObjectWithout(skip) ==
    LET keep == SelectSeq(KeyOrder, LAMBDA k : k # skip)
    IN  <<LBrace>> \o [i \in 1..Len(keep) |-> GoodMember(keep[i])] \o <<RBrace>>

\* Texts the oracle may reply with
OracleReplies ==
    { <<Txt("Here you go:")>> \o ObjectWithout("") }
    \cup { ObjectWithout(k) : k \in RequiredKeys }
    \cup { <<Txt("Sorry, I cannot help")>>,
           <<LBrace, GoodMember("Title")>>,
           <<RBrace, Txt("then"), LBrace>>,
           <<LBrace, Txt("oops"), RBrace>>,
           ObjectWithout("") \o <<Txt("or")>> \o ObjectWithout(""),
           << >> }

\* A stored record of an earlier session
StoredRecord(title, completed, date) ==
    [k \in {"Title", "Difficulty", "Time Taken", "Completed", "Tags",
            "date_attempted"} |->
        CASE k = "Title" -> title
          [] k = "Difficulty" -> FormDifficulty(title)
          [] k = "Time Taken" -> "30 mins"
          [] k = "Completed" -> completed
          [] k = "Tags" -> SplitTags(FormTagsText(title))
          [] OTHER -> date]

-----------------------------------------------------------------------------
(* The submit branch of main, lines 247-341, one script run per session.   *)
(* A local is None (or empty) while its function is not running.          *)

Init0 ==
    /\ df \in {Catalog, EmptyCatalog}
    /\ selFile = NoSelection
    /\ overwritten = NoSelection
    /\ previous_attempt = [s \in Sessions |-> None]
    /\ data = [s \in Sessions |-> << >>]
    /\ all_attempts = [s \in Sessions |-> << >>]
    /\ revision_problem = [s \in Sessions |-> None]
    /\ prompt = [s \in Sessions |-> None]
    /\ ai_response = [s \in Sessions |-> None]
    /\ is_revision = [s \in Sessions |-> FALSE]
    /\ oracle_calls = [s \in Sessions |-> 0]
    /\ steps = [s \in Sessions |-> << >>]
    /\ ui = [s \in Sessions |-> << >>]
    /\ cycles = 0

\* Histories found on disk when the app starts: no file, an unreadable file,
\* or one completed attempt made RevisionGap days ago
InitialHistories(now) ==
    {Absent, Corrupt,
     JsonFile(<<StoredRecord("lru cache ", "yes", strftime(now - RevisionGap))>>)}

InitMain ==
    /\ Init0
    /\ today = RevisionGap
    /\ histFile \in InitialHistories(today)
    /\ pc = [s \in Sessions |-> "idle"]

\* One session at a time (section 5 of the design)
Init ==
    /\ InitMain
    /\ active = {1}
    /\ forms = [s \in Sessions |->
                    [titles |-> FormTitles, days |-> FormDays(today)]]

\* The title each of two concurrent learners is working on
ConcTitle(s) == IF s = 1 THEN "Two Sum" ELSE "lru cache "

\* Two sessions on the same files, each learner reporting today's attempt
\* at one problem
InitConc ==
    /\ InitMain
    /\ active = Sessions
    /\ forms = [s \in Sessions |->
                    [titles |-> {"", ConcTitle(s)}, days |-> {today}]]

\* Lines 248-249: a form without a title is rejected
SubmitInvalid(s) ==
    /\ s \in active /\ pc[s] = "idle" /\ cycles < MaxCycles
    /\ \E form \in Forms(forms[s]) :
        /\ form.title = ""
        /\ ui' = [ui EXCEPT ![s] = <<ErrRequired>>]
    /\ cycles' = cycles + 1
    /\ steps' = [steps EXCEPT ![s] = << >>]
    /\ oracle_calls' = [oracle_calls EXCEPT ![s] = 0]
    /\ UNCHANGED <<today, df, histFile, selFile, active, forms, pc, data, ai_response,
                   previous_attempt, revision_problem, is_revision,
                   all_attempts, prompt, overwritten>>

\* Lines 253-260 and the first half of append_to_history (lines 74-83):
\* build the attempt, read the whole file, append in memory
Submit(s) ==
    /\ s \in active /\ pc[s] = "idle" /\ cycles < MaxCycles
    /\ \E form \in Forms(forms[s]) :
        /\ form.title # ""
        /\ previous_attempt' = [previous_attempt EXCEPT ![s] = AttemptOf(form)]
        /\ data' = [data EXCEPT ![s] =
                        Append(load_attempts_history(histFile), AttemptOf(form))]
    /\ cycles' = cycles + 1
    /\ pc' = [pc EXCEPT ![s] = "write"]
    /\ ui' = [ui EXCEPT ![s] = << >>]
    /\ steps' = [steps EXCEPT ![s] = << >>]
    /\ oracle_calls' = [oracle_calls EXCEPT ![s] = 0]
    /\ UNCHANGED <<today, df, histFile, selFile, active, forms, ai_response,
                   revision_problem, is_revision, all_attempts, prompt,
                   overwritten>>

\* A write of the new entry alone
WrittenEntryOnly(file, d) == JsonFile(<<d[Len(d)]>>)

\* A write that appends to what the file holds at the time of the write
WrittenUnderLock(file, d) ==
    JsonFile(Append(load_attempts_history(file), d[Len(d)]))

\* The file all_attempts.json after lines 85-86, given the list in memory
WrittenHistory(file, d) == JsonFile(d)

\* Second half of append_to_history (lines 85-86): write the whole file
WriteHistory(s) ==
    /\ s \in active /\ pc[s] = "write"
    /\ histFile' = WrittenHistory(histFile, data[s])
    /\ data' = [data EXCEPT ![s] = << >>]
    /\ steps' = [steps EXCEPT ![s] = Append(@, "append")]
    /\ pc' = [pc EXCEPT ![s] = "pick"]
    /\ UNCHANGED <<today, df, selFile, active, forms, previous_attempt,
                   all_attempts, revision_problem, prompt, ai_response,
                   is_revision, oracle_calls, ui, overwritten, cycles>>

\* A pick that asks the oracle whatever the check found
AlwaysOracle(found) == "oracle"

\* Where pick_problem_with_ai goes after the revision check (lines 129-137):
\* "respond" returns the revision as JSON, "oracle" goes on to the prompt
AfterCheck(found) == IF found THEN "respond" ELSE "oracle"

\* Line 266 and pick_problem_with_ai up to the call of the oracle
\* (lines 125-166).  GOOGLE_API_KEY is set: main returns at line 219 otherwise.
PickProblem(s) ==
    /\ s \in active /\ pc[s] = "pick"
    /\ LET loaded == load_attempts_history(histFile)
           r      == check_revision_needed(loaded, df, today)
           prev   == previous_attempt[s]
       IN  /\ all_attempts' = [all_attempts EXCEPT ![s] = r.attempts]
           /\ revision_problem' = [revision_problem EXCEPT ![s] = r.attempt]
           /\ steps' = [steps EXCEPT ![s] = Append(@, "check")]
           /\ pc' = [pc EXCEPT ![s] = AfterCheck(r.found)]
           /\ IF AfterCheck(r.found) = "respond"
              THEN /\ r.found
                   /\ ai_response' = [ai_response EXCEPT ![s] =
                        Text(Dumps(r.attempt["Title"], r.attempt["Difficulty"],
                                   Get(r.attempt, LinkKey, DefaultLink),
                                   "This problem is due for revision as it was solved exactly 7 days ago."))]
                   /\ is_revision' = [is_revision EXCEPT ![s] = TRUE]
                   /\ UNCHANGED prompt
              ELSE /\ prompt' = [prompt EXCEPT ![s] =
                        BuildPrompt(prev["Title"], prev["Difficulty"], prev["Tags"],
                                    prev["Completed"], prev["date_attempted"],
                                    r.attempts)]
                   /\ UNCHANGED <<ai_response, is_revision>>
    /\ UNCHANGED <<today, df, histFile, selFile, active, forms, previous_attempt,
                   data, oracle_calls, ui, overwritten, cycles>>

\* Lines 168-173: one call of model.generate_content; it raises, or replies
CallOracle(s) ==
    /\ s \in active /\ pc[s] = "oracle"
    /\ oracle_calls' = [oracle_calls EXCEPT ![s] = @ + 1]
    /\ steps' = [steps EXCEPT ![s] = Append(@, "oracle")]
    /\ \/ /\ ai_response' = [ai_response EXCEPT ![s] = None]
          /\ ui' = [ui EXCEPT ![s] = Append(@, ErrApi)]
       \/ /\ \E reply \in OracleReplies :
                ai_response' = [ai_response EXCEPT ![s] = Text(reply)]
          /\ UNCHANGED ui
    /\ is_revision' = [is_revision EXCEPT ![s] = FALSE]
    /\ prompt' = [prompt EXCEPT ![s] = None]
    /\ pc' = [pc EXCEPT ![s] = "respond"]
    /\ UNCHANGED <<today, df, histFile, selFile, active, forms, previous_attempt,
                   data, all_attempts, revision_problem, overwritten, cycles>>

\* A handler that leaves a placeholder selection behind on a parse error
OnParseErrorSavesDefault(oldSel, detail) ==
    [sel |-> JsonFile([Title |-> "", Reason |-> detail]),
     msgs |-> <<ErrParse(detail)>>, saved |-> FALSE]

\* Lines 337-339: except Exception as e: st.error(...); st.code(ai_response)
OnParseError(oldSel, detail) ==
    [sel |-> oldSel, msgs |-> <<ErrParse(detail)>>, saved |-> FALSE]

\* Lines 279-341 as a function of the response: the selection file after
\* the cycle, the messages shown, and whether save_selected_problem ran
HandleOutcome(resp, prev, isRev, oldSel) ==
    IF resp = None \/ resp.text = << >>
    THEN [sel |-> oldSel, msgs |-> <<ErrNoRecommendation>>, saved |-> FALSE]
    ELSE
    LET json_match == Search(resp.text)
    IN  IF ~json_match.found
        THEN OnParseError(oldSel, "No valid JSON found in AI response")
        ELSE
        LET l == Loads(json_match.group)
            parsed == l.value
        IN  IF ~l.ok THEN OnParseError(oldSel, "JSONDecodeError")
            ELSE IF "Title" \notin DOMAIN parsed THEN OnParseError(oldSel, "'Title'")
            ELSE IF "Link" \notin DOMAIN parsed THEN OnParseError(oldSel, "'Link'")
            ELSE IF "Reason" \notin DOMAIN parsed THEN OnParseError(oldSel, "'Reason'")
            ELSE
            LET user_behavior ==
                    IF prev["Completed"] = "no" THEN "skipped" ELSE "completed"
                written == save_selected_problem(oldSel,
                    SelectionData(parsed["Title"], parsed["Link"],
                                  prev["Difficulty"], prev["Tags"],
                                  user_behavior, parsed["Reason"], isRev,
                                  prev["Completed"]))
            IN  [sel |-> written,
                 msgs |-> IF "Difficulty" \in DOMAIN parsed
                          THEN <<Success>>
                          ELSE <<Success, ErrParse("'Difficulty'")>>,
                 saved |-> TRUE]

\* Lines 279-341: parse the response, save the selection, report; the
\* script run ends and its locals with it
HandleResponse(s) ==
    /\ s \in active /\ pc[s] = "respond"
    /\ LET out == HandleOutcome(ai_response[s], previous_attempt[s],
                                is_revision[s], selFile)
       IN  /\ selFile' = out.sel
           /\ overwritten' = IF out.saved THEN selFile ELSE overwritten
           /\ ui' = [ui EXCEPT ![s] = @ \o out.msgs]
           /\ steps' = [steps EXCEPT ![s] =
                            IF out.saved THEN Append(@, "save") ELSE @]
    /\ ai_response' = [ai_response EXCEPT ![s] = None]
    /\ previous_attempt' = [previous_attempt EXCEPT ![s] = None]
    /\ all_attempts' = [all_attempts EXCEPT ![s] = << >>]
    /\ revision_problem' = [revision_problem EXCEPT ![s] = None]
    /\ is_revision' = [is_revision EXCEPT ![s] = FALSE]
    /\ pc' = [pc EXCEPT ![s] = "idle"]
    /\ UNCHANGED <<today, df, histFile, active, forms, data, prompt, oracle_calls,
                   cycles>>

Next ==
    \E s \in Sessions :
        \/ SubmitInvalid(s)
        \/ Submit(s)
        \/ WriteHistory(s)
        \/ PickProblem(s)
        \/ CallOracle(s)
        \/ HandleResponse(s)

Spec == Init /\ [][Next]_vars

SpecConc == InitConc /\ [][Next]_vars

-----------------------------------------------------------------------------
(* The revision check on its own, applied to stored histories as the days  *)
(* pass                                                                    *)

\* Records found in a stored history: a title with the link stored for it
\* (none, blank, or one of the learner's own), completed or not, dated on
\* one of the days 0 .. DateSpan or with a date that does not parse
OwnLink == "https://example.org/own"

WithStoredLink(r) ==
    CASE r["Title"] = "lru cache " -> SetKey(r, LinkKey, " ")
      [] r["Title"] = "Own"        -> SetKey(r, LinkKey, OwnLink)
      [] OTHER                     -> r

CheckRecords ==
    {WithStoredLink(StoredRecord(t, c, d)) :
        t \in {"Two Sum", "lru cache ", "ZZZ ", "Own"},
        c \in {"yes", "no"},
        d \in {strftime(n) : n \in 0..DateSpan} \cup {BadDate}}

\* Sequences over S of length at most n
RECURSIVE SeqsUpTo(_, _)
SeqsUpTo(S, n) ==
    IF n = 0 THEN {<< >>}
    ELSE LET shorter == SeqsUpTo(S, n - 1)
         IN  shorter \cup {Append(q, x) : q \in shorter, x \in S}

FirstToday == RevisionGap - 1
LastToday == RevisionGap + DateSpan + 1

InitCheck ==
    /\ Init0
    /\ today = FirstToday
    /\ histFile \in {JsonFile(h) : h \in SeqsUpTo(CheckRecords, MaxHist)}
    /\ active = {1}
    /\ forms = [s \in Sessions |-> [titles |-> {}, days |-> {}]]
    /\ pc = [s \in Sessions |-> "start"]

\* all_attempts = load_attempts_history(); check_revision_needed(all_attempts, df)
RunCheck ==
    /\ pc[1] = "start"
    /\ LET r == check_revision_needed(load_attempts_history(histFile), df, today)
       IN  /\ all_attempts' = [all_attempts EXCEPT ![1] = r.attempts]
           /\ revision_problem' = [revision_problem EXCEPT ![1] = r.attempt]
    /\ pc' = [pc EXCEPT ![1] = "checked"]
    /\ UNCHANGED <<today, df, histFile, selFile, active, forms, previous_attempt,
                   data, prompt, ai_response, is_revision, oracle_calls,
                   steps, ui, overwritten, cycles>>

\* Midnight: datetime.now().date() moves on, the next run starts afresh
Tick ==
    /\ pc[1] = "checked" /\ today < LastToday
    /\ today' = today + 1
    /\ pc' = [pc EXCEPT ![1] = "start"]
    /\ all_attempts' = [all_attempts EXCEPT ![1] = << >>]
    /\ revision_problem' = [revision_problem EXCEPT ![1] = None]
    /\ UNCHANGED <<df, histFile, selFile, active, forms, previous_attempt,
                   data, prompt, ai_response, is_revision, oracle_calls,
                   steps, ui, overwritten, cycles>>

NextCheck == RunCheck \/ Tick

SpecCheck == InitCheck /\ [][NextCheck]_vars

-----------------------------------------------------------------------------
(* Properties *)

\* A record that is due on day `now`: completed, with a date that parses
\* and lies exactly 7 days back
Due(a, now) ==
    /\ a["Completed"] = "yes"
    /\ a["date_attempted"].valid
    /\ now - a["date_attempted"].day = 7

DueIndices(h, now) == {i \in 1..Len(h) : Due(h[i], now)}

Stored == load_attempts_history(histFile)

\* C1: on every day and for every stored history, the revision check
\* returns a record iff some completed record is dated exactly 7 days
\* before today, and the record it returns is dated exactly 7 days back: a
\* record that was due on an earlier day (a gap of 8 or more) is not returned.
C1_ExactlySevenDays ==
    pc[1] = "checked" =>
        /\ (revision_problem[1] # None) <=> (DueIndices(Stored, today) # {})
        /\ revision_problem[1] # None =>
            /\ revision_problem[1]["Completed"] = "yes"
            /\ revision_problem[1]["date_attempted"] = strftime(today - 7)

\* C1 witness: a record that was due yesterday is passed over and the one
\* due today is returned
C1_Witness ==
    /\ pc[1] = "checked"
    /\ Len(Stored) = 2
    /\ Stored[1]["Completed"] = "yes"
    /\ Stored[1]["date_attempted"] = strftime(today - 8)
    /\ Due(Stored[2], today)
    /\ revision_problem[1] # None
    /\ revision_problem[1]["Difficulty"] = Stored[2]["Difficulty"]

\* C2: the check returns one record, the due record of smallest index: the
\* list in memory differs from the stored one at that index at most, the
\* record returned is the one at that index, and a completed record whose
\* date does not parse does not keep a later due record from being returned.
C2_FirstDueRecord ==
    pc[1] = "checked" =>
        LET due == DueIndices(Stored, today)
        IN  IF due = {}
            THEN revision_problem[1] = None /\ all_attempts[1] = Stored
            ELSE LET i == CHOOSE k \in due : \A j \in due : k <= j
                 IN  /\ Len(all_attempts[1]) = Len(Stored)
                     /\ \A j \in 1..Len(Stored) :
                            j # i => all_attempts[1][j] = Stored[j]
                     /\ revision_problem[1] = all_attempts[1][i]
                     /\ \A k \in {"Difficulty", "Completed", "date_attempted"} :
                            revision_problem[1][k] = Stored[i][k]

\* C2 witness: a completed record with an unparsable date precedes the due
\* record, which is returned
C2_Witness ==
    /\ pc[1] = "checked"
    /\ Len(Stored) = 2
    /\ Stored[1]["Completed"] = "yes"
    /\ Stored[1]["date_attempted"] = BadDate
    /\ Due(Stored[2], today)
    /\ revision_problem[1] = all_attempts[1][2]

\* The orders in which a cycle takes its steps
StepOrders ==
    {<< >>, <<"append">>, <<"append", "check">>,
     <<"append", "check", "oracle">>,
     <<"append", "check", "oracle", "save">>,
     <<"append", "check", "save">>}

\* Session s ends its cycle in this step (lines 279-341 run)
Responds(s) == pc[s] = "respond" /\ pc'[s] = "idle"

\* Session s writes the selection file in this step
Saves(s) == Responds(s) /\ steps'[s] # steps[s]

IsError(m) == m[1] = "error"

\* The object main parsed from the response of session s
ParsedOf(s) == Loads(Search(ai_response[s].text).group).value

\* C3 (states): a cycle takes its steps in the order append, check,
\* (oracle,) save; while a due record is stored the oracle has not been and
\* is not being called, and the cycle is marked a revision; the oracle is
\* called only when the check returned none.
C3_Order ==
    \A s \in active :
        /\ steps[s] \in StepOrders
        /\ ("oracle" \in Range(steps[s]) \/ pc[s] = "oracle") =>
                /\ revision_problem[s] = None
                /\ DueIndices(Stored, today) = {}
        /\ (pc[s] \in {"oracle", "respond"} /\ DueIndices(Stored, today) # {}) =>
                /\ pc[s] = "respond"
                /\ revision_problem[s] # None
                /\ is_revision[s]
                /\ oracle_calls[s] = 0
                /\ steps[s] = <<"append", "check">>

\* C3 (steps): when the check found a due record, the cycle ends by saving a
\* selection with that record's title and link, tagged as a revision, without
\* a call of the oracle.
C3_SavesRevision ==
    \A s \in active :
        (Responds(s) /\ revision_problem[s] # None) =>
            /\ selFile'.kind = "json"
            /\ selFile'.data["Title"] = revision_problem[s]["Title"]
            /\ selFile'.data[LinkKey] = revision_problem[s][LinkKey]
            /\ "Tag" \in DOMAIN selFile'.data
            /\ selFile'.data["Tag"] \in {"revision", "revision not Complete"}
            /\ oracle_calls'[s] = 0
            /\ steps'[s] = <<"append", "check", "save">>

\* C3: in every cycle the steps come in the order history append, revision
\* check, oracle call (only if no revision is due), selection save; a due
\* revision suppresses the oracle call and is what gets saved, marked as a
\* revision.
C3_RevisionOverridesOracle == []C3_Order /\ [][C3_SavesRevision]_vars

\* C3 witness: a cycle that found a due revision has ended, having saved the
\* canonical title of the due record without calling the oracle
C3_Witness ==
    /\ pc[1] = "idle"
    /\ steps[1] = <<"append", "check", "save">>
    /\ oracle_calls[1] = 0
    /\ selFile.kind = "json"
    /\ selFile.data["Title"] = "LFU Cache"
    /\ selFile.data[LinkKey] = LfuLink
    /\ selFile.data["Tag"] = "revision"

\* C4: when the object parsed from the oracle's reply lacks one of the keys
\* Title, Difficulty, Link, Reason, the cycle reports an error and leaves the
\* selection file as it was.
C4_MissingKeyLeavesStore ==
    [][\A s \in active :
        (/\ Responds(s)
         /\ ai_response[s] # None
         /\ Search(ai_response[s].text).found
         /\ Loads(Search(ai_response[s].text).group).ok
         /\ ~(RequiredKeys \subseteq DOMAIN ParsedOf(s))) =>
            /\ selFile' = selFile
            /\ \E i \in 1..Len(ui'[s]) : IsError(ui'[s][i])]_vars

\* The oracle call of session s failed: it raised, or its reply holds no
\* brace-delimited span, or the span is not JSON
OracleFailed(s) ==
    /\ oracle_calls[s] = 1
    /\ \/ ai_response[s] = None
       \/ ~Search(ai_response[s].text).found
       \/ ~Loads(Search(ai_response[s].text).group).ok

\* C5 (steps): a cycle whose oracle call failed ends with an error shown to
\* the user, the selection file and the history file untouched, the
\* triggering attempt the last record of the history, and one oracle call.
C5_FailureStep ==
    \A s \in active :
        (Responds(s) /\ OracleFailed(s)) =>
            /\ selFile' = selFile
            /\ histFile' = histFile
            /\ Len(Stored) >= 1
            /\ Stored[Len(Stored)] = previous_attempt[s]
            /\ oracle_calls'[s] = 1
            /\ Len(ui'[s]) >= 1
            /\ IsError(ui'[s][Len(ui'[s])])
            /\ steps'[s] = <<"append", "check", "oracle">>

\* C5: a failed oracle call or an unparsable reply ends the cycle with a
\* reported error: no second oracle call, the selection store unchanged, the
\* triggering attempt still appended to the stored history.
C5_OracleFailureContained ==
    [](\A s \in active : oracle_calls[s] <= 1) /\ [][C5_FailureStep]_vars

\* C5 witness: a cycle has ended on a reply whose span is not JSON, after one
\* oracle call, with nothing saved and the attempt in the history
C5_Witness ==
    /\ pc[1] = "idle"
    /\ ui[1] = <<ErrParse("JSONDecodeError")>>
    /\ oracle_calls[1] = 1
    /\ steps[1] = <<"append", "check", "oracle">>
    /\ selFile = NoSelection
    /\ Len(Stored) >= 1

\* C6: the Tag written is "revision" for a completed revision, "revision not
\* Complete" for a revision not completed, "not Complete" for a plain
\* selection not completed, and absent for a plain selection completed.
C6_TagTable ==
    [][\A s \in active :
        Saves(s) =>
            LET rev  == is_revision[s]
                done == previous_attempt[s]["Completed"] = "yes"
                d    == selFile'.data
            IN  /\ (rev /\ done) => ("Tag" \in DOMAIN d /\ d["Tag"] = "revision")
                /\ (rev /\ ~done) =>
                        ("Tag" \in DOMAIN d /\ d["Tag"] = "revision not Complete")
                /\ (~rev /\ ~done) =>
                        ("Tag" \in DOMAIN d /\ d["Tag"] = "not Complete")
                /\ (~rev /\ done) => "Tag" \notin DOMAIN d]_vars

\* C7 (steps): the history file changes only by a session's write, and the
\* write leaves the stored history followed by that session's attempt.
C7_AppendOnlyStep ==
    histFile' # histFile =>
        \E s \in active :
            /\ pc[s] = "write" /\ pc'[s] = "pick"
            /\ histFile'.kind = "json"
            /\ histFile'.data = Append(Stored, previous_attempt[s])

\* C7 (states): once a cycle has appended, its attempt is the last stored
\* record for the rest of the cycle
C7_AttemptStored ==
    \A s \in active :
        pc[s] \in {"pick", "oracle", "respond"} =>
            /\ histFile.kind = "json"
            /\ Len(Stored) >= 1
            /\ Stored[Len(Stored)] = previous_attempt[s]

\* C7: over any sequence of cycles the stored history only grows, by exactly
\* the submitted attempt at its end per cycle; no stored record is removed,
\* reordered or modified, and the title/link patch the revision check makes
\* in memory never reaches the file.
C7_HistoryAppendOnly == []C7_AttemptStored /\ [][C7_AppendOnlyStep]_vars

\* C7 witness: in a second cycle the check has patched the due record in
\* memory while the file holds it as stored
C7_Witness ==
    /\ cycles = 2
    /\ pc[1] = "respond"
    /\ is_revision[1]
    /\ Len(Stored) = 3
    /\ all_attempts[1] # Stored
    /\ all_attempts[1][1]["Title"] = "LFU Cache"
    /\ Stored[1]["Title"] = "lru cache "
    /\ Stored[3] = previous_attempt[1]

SelectionKeys ==
    {"Title", LinkKey, "Previous Difficulty", "Recent Tags", "User Behavior",
     "Reason"}

\* C8: a save leaves exactly the record of the selection being saved: its
\* six fields, a Tag only when this selection is a revision or its attempt
\* was not completed, and nothing of the record stored before.
C8_SingleSlot ==
    [][\A s \in active :
        Saves(s) =>
            LET d    == selFile'.data
                prev == previous_attempt[s]
                b    == ParsedOf(s)
            IN  /\ selFile'.kind = "json"
                /\ DOMAIN d \subseteq SelectionKeys \cup {"Tag"}
                /\ SelectionKeys \subseteq DOMAIN d
                /\ ("Tag" \in DOMAIN d) <=>
                        (is_revision[s] \/ prev["Completed"] = "no")
                /\ d["Title"] = b["Title"]
                /\ d[LinkKey] = b["Link"]
                /\ d["Reason"] = b["Reason"]
                /\ d["Previous Difficulty"] = prev["Difficulty"]
                /\ d["Recent Tags"] = prev["Tags"]
                /\ d["User Behavior"] =
                        (IF prev["Completed"] = "no" THEN "skipped" ELSE "completed")]_vars

\* C8 witness: a selection without a Tag has replaced one that carried a Tag
C8_Witness ==
    /\ pc[1] = "idle"
    /\ overwritten.kind = "json"
    /\ "Tag" \in DOMAIN overwritten.data
    /\ selFile.kind = "json"
    /\ "Tag" \notin DOMAIN selFile.data
    /\ selFile.data["User Behavior"] = "completed"

\* The first cycle, from an empty history, is about to call the oracle for
\* the attempt {Two Sum, Easy, not completed}
C9_Scenario ==
    /\ cycles = 1
    /\ pc[1] = "oracle"
    /\ Len(Stored) = 1
    /\ previous_attempt[1]["Title"] = "Two Sum"
    /\ previous_attempt[1]["Difficulty"] = "Easy"
    /\ previous_attempt[1]["Completed"] = "no"

\* C9 as claimed: from an empty history, after {Two Sum, Easy, "no", D} the
\* history has length 1, the check returns none and the request carries the
\* guidance "same or easier" and an empty summary of recent attempts.
C9_EmptySummary ==
    C9_Scenario =>
        /\ revision_problem[1] = None
        /\ prompt[1].guidance = "same or easier"
        /\ prompt[1].summary = << >>

\* C9 as amended: ... and a summary of recent attempts that holds exactly one
\* entry, the triggering attempt itself.
C9_SummaryHoldsTrigger ==
    C9_Scenario =>
        /\ Stored = <<previous_attempt[1]>>
        /\ revision_problem[1] = None
        /\ prompt[1].guidance = "same or easier"
        /\ prompt[1].summary =
              << [Title |-> "Two Sum", Difficulty |-> "Easy",
                  Outcome |-> "Skipped",
                  Date |-> previous_attempt[1]["date_attempted"]] >>

\* C9 witness: the scenario, with the request built
C9_Witness == C9_Scenario /\ prompt[1] # None

\* C10: a session's write stores the list that session read, with its
\* attempt appended, whatever the file holds by then: the last writer wins.
C10_LastWriterWins ==
    [][\A s \in active :
        (pc[s] = "write" /\ pc'[s] = "pick") =>
            /\ histFile'.kind = "json"
            /\ histFile'.data = data[s]
            /\ Len(histFile'.data) <= Len(Stored) + 1]_vars

\* C10 witness: both sessions have appended to an empty history, and the
\* file holds the record of session 1 alone
C10_Witness ==
    /\ cycles = 2
    /\ pc[1] \in {"pick", "oracle", "respond"}
    /\ pc[2] \in {"pick", "oracle", "respond"}
    /\ previous_attempt[1]["Title"] = "Two Sum"
    /\ previous_attempt[2]["Title"] = "lru cache "
    /\ Stored = <<previous_attempt[1]>>

=============================================================================
